---- MODULE Spec2Model ----
(***************************************************************************)
(* Word-guess session controller (WordGuessGame component) and the shared  *)
(* progress store (useGameStore).                                          *)
(*                                                                         *)
(* React state is modelled as follows.  gameState is the component state   *)
(* with every queued updater already applied (updaters are applied in the  *)
(* order they were queued, so this is the state the next render commits).  *)
(* rendered is what the closures of the last render captured: the event    *)
(* handlers read gameState.guessedLetters, gameState.word and currentLevel *)
(* from it, never from the live state.  The store calls an updater makes   *)
(* are made when React runs the updater: updaterScores holds the points    *)
(* of the updaters still queued, updatePending tells whether an update is  *)
(* queued on the component.  Render runs the queued updaters and refreshes *)
(* the closures; the passive effects whose dependencies changed run in a   *)
(* later step (effectsDue), and what they set is rendered in turn.         *)
(* mounted tells whether the component is on screen; timer is the interval *)
(* of the countdown effect, and tells whether it was created for the       *)
(* session that is running; queued counts the voice commands since the     *)
(* last render that changed the state; tables are the store's content      *)
(* tables.                                                                 *)
(* Strings are sequences of one-character strings.                         *)
(***************************************************************************)
EXTENDS Integers, Sequences, FiniteSets, TLC

VARIABLES progress, tables, gameState, rendered, pendingInit, mounted, timer,
          updaterScores, updatePending, effectsDue, queued, ev

vars == <<progress, tables, gameState, rendered, pendingInit, mounted, timer,
          updaterScores, updatePending, effectsDue, queued, ev>>

(* ------------------------------ bounds -------------------------------- *)

\* Number of levels the words table has a word for.
MaxLevel == 2

\* Cap of the score ledger while currentLevel is a level of the words table
\* (a scoring event is offered only below it).
MaxScore == 120

\* Cap of the length of gameState.guessedLetters.
MaxGuessed == 2

\* How far below zero remainingAttempts is followed.
MaxOverdraw == 1

\* Cap of the number of scheduled setTimeout(initGame, 1500) callbacks.
MaxPending == 1

\* Cap of the number of voice commands that change the state between two
\* renders.  A command that changes nothing, a firing of the interval and a
\* timeout are never held back, and a render is due whenever the cap is
\* reached.
MaxBatch == 1

\* How far below zero gameState.timeLeft is followed.
MaxOverrun == 1

\* Caps of the records the progress store is driven with on its own.
StoreMaxLevel == 2

StoreMaxScore == 20

\* Highest level the difficulty bands are computed for.
MaxBandLevel == 15100

(* --------------------------- program constants ------------------------ *)

StartAttempts == 6

MemorizeSeconds == 3

GuessPoints == 10

SolvePoints == 100

(* ------------------------------ strings ------------------------------- *)

UpperChars == <<"A","B","C","D","E","F","G","H","I","J","K","L","M",
                "N","O","P","Q","R","S","T","U","V","W","X","Y","Z">>

LowerChars == <<"a","b","c","d","e","f","g","h","i","j","k","l","m",
                "n","o","p","q","r","s","t","u","v","w","x","y","z">>

DigitChars == {"0","1","2","3","4","5","6","7","8","9"}

Range(s) == {s[i] : i \in 1..Len(s)}

\* String.prototype.toUpperCase / toLowerCase, one character.
toUpperChar(c) ==
    IF c \in Range(LowerChars)
    THEN UpperChars[CHOOSE i \in 1..Len(LowerChars) : LowerChars[i] = c]
    ELSE c

toLowerChar(c) ==
    IF c \in Range(UpperChars)
    THEN LowerChars[CHOOSE i \in 1..Len(UpperChars) : UpperChars[i] = c]
    ELSE c

toUpperCase(s) == [i \in 1..Len(s) |-> toUpperChar(s[i])]

toLowerCase(s) == [i \in 1..Len(s) |-> toLowerChar(s[i])]

\* Array.prototype.includes, and String.prototype.includes for a one-character
\* argument.
includes(s, x) == \E i \in 1..Len(s) : s[i] = x

\* String.prototype.includes for a substring.
includesStr(s, sub) ==
    \E i \in 1..(Len(s) - Len(sub) + 1) :
        \A k \in 1..Len(sub) : s[i + k - 1] = sub[k]

\* The regular expression class \w.
IsWordChar(c) ==
    c \in Range(UpperChars) \cup Range(LowerChars) \cup DigitChars \cup {"_"}

\* word.split('').filter(l => l === letter).length
occurrences(word, letter) ==
    Cardinality({i \in 1..Len(word) : word[i] = letter})

\* [...new Set(word.split(''))]: the distinct characters, in order of first
\* occurrence.
distinctLetters(word) ==
    LET keep == {i \in 1..Len(word) : \A j \in 1..(i - 1) : word[j] # word[i]}
        nth[k \in 0..Len(word)] ==
            IF k = 0 THEN 0
            ELSE IF \E i \in keep : i > nth[k - 1]
                 THEN CHOOSE i \in keep :
                        i > nth[k - 1] /\ \A j \in keep : j > nth[k - 1] => i <= j
                 ELSE 0
    IN [k \in 1..Cardinality(keep) |-> word[nth[k]]]

(* --------------------------- progress store --------------------------- *)

wordguess == "wordguess"

GameTypes == {"quiz", "wordguess", "numberguess", "memory", "simon", "adventure"}

initialProgress == [currentLevel |-> 1, highestLevel |-> 1, totalScore |-> 0]

\* The store's progress map as created.
initialStore == [g \in GameTypes |-> initialProgress]

\* An update that never lets highestLevel fall.
updateProgress_KeepHighest(p, gameType, record) ==
    [p EXCEPT ![gameType] =
        [record EXCEPT !.highestLevel =
            IF p[gameType].highestLevel > @ THEN p[gameType].highestLevel ELSE @]]

\* updateProgress: state.progress[gameType] = progress
updateProgress(p, gameType, record) == [p EXCEPT ![gameType] = record]

\* A reset that replaces the whole progress map.
resetProgress_All(p, gameType) == [g \in DOMAIN p |-> initialProgress]

\* A reset to level 0, the index of the first entry of a content table.
resetProgress_LevelZero(p, gameType) ==
    [p EXCEPT ![gameType] = [initialProgress EXCEPT !.currentLevel = 0]]

\* resetProgress: state.progress[gameType] = { ...initialProgress }
resetProgress(p, gameType) == [p EXCEPT ![gameType] = initialProgress]

\* useGameProgress(gameType).updateScore: totalScore += delta.
updateScore(p, gameType, delta) ==
    updateProgress(p, gameType, [p[gameType] EXCEPT !.totalScore = @ + delta])

\* useGameProgress(gameType).incrementLevel: currentLevel += 1, and
\* highestLevel follows it when exceeded.
incrementLevel(p, gameType) ==
    LET next == p[gameType].currentLevel + 1
    IN updateProgress(p, gameType,
           [p[gameType] EXCEPT !.currentLevel = next,
                               !.highestLevel = IF next > @ THEN next ELSE @])

(* --------------------------- content source --------------------------- *)

\* generateWords(): the words of the first levels, upper case, repeated in
\* this order for the levels after them.
baseWords == << <<"A","A">>, <<"A","B">>, <<"B">> >>

\* words[currentLevel - 1].word (the table is indexed from 0 in the program,
\* by level here).
words(level) == baseWords[((level - 1) % Len(baseWords)) + 1]

\* words.length: generateWords() returns an array, which has a last entry.
wordCount == MaxLevel

\* words[currentLevel - 1] is an entry of the table (not undefined).
drawable(level) == level >= 1 /\ level <= wordCount

\* The content tables of the store as created; only the words are looked into.
contentTables ==
    [quizQuestions |-> <<"generateQuizQuestions()">>,
     words |-> [level \in 1..wordCount |-> words(level)],
     numberStages |-> <<"generateNumberStages()">>,
     memoryStages |-> <<"generateMemoryStages()">>,
     simonStages |-> <<"generateSimonStages()">>,
     adventureStages |-> <<"generateAdventureStages()">>]

(* ------------------------- session controller ------------------------- *)

\* The world a handler acts on: the component state with its queued updaters
\* applied (gs), the store's progress map (prog) and the scheduled
\* setTimeout(initGame, 1500) callbacks, each with the currentLevel its
\* closure captured (pend).
\* timer is the interval of the countdown effect: "none", "own" (created
\* since the running session was started) or "orphan" (created for a session
\* that initGame has replaced since); up tells whether the component is
\* mounted.  scores are the points the queued updaters of handleGuess pass
\* to updateScore when React runs them, dirty tells whether an update is
\* queued on the component, shown is the snapshot of the last render and
\* due the passive effects that render left to run.
World == [gs |-> gameState, prog |-> progress, pend |-> pendingInit,
          timer |-> timer, up |-> mounted, scores |-> updaterScores,
          dirty |-> updatePending, shown |-> rendered, due |-> effectsDue]

\* What a render captures for the handlers it creates.
Snapshot(w) == [gameState |-> w.gs, currentLevel |-> w.prog[wordguess].currentLevel]

\* The argument of setGameState in initGame.
freshState(currentLevel) ==
    [word |-> words(currentLevel), guessedLetters |-> <<>>,
     remainingAttempts |-> StartAttempts, timeLeft |-> MemorizeSeconds]

\* The initial value of useState: no word, six attempts, three seconds.
blankState ==
    [word |-> <<>>, guessedLetters |-> <<>>,
     remainingAttempts |-> StartAttempts, timeLeft |-> MemorizeSeconds]

\* The live interval, if any, now belongs to a replaced session.
orphaned(t) == IF t = "none" THEN "none" ELSE "orphan"

\* initGame, created by a render that saw currentLevel: reading .word of an
\* undefined entry throws before setGameState is reached.
initGame(w, currentLevel) ==
    IF drawable(currentLevel)
    THEN [w EXCEPT !.gs = freshState(currentLevel), !.timer = orphaned(@),
                   !.dirty = TRUE]
    ELSE w

\* handleGuess, created by the render whose snapshot is c.  The guard reads
\* the closure; everything else, updateScore included, is in the updater
\* passed to setGameState.  React runs the updater in the call when it
\* computes the next state eagerly, which it can do only when no update is
\* queued on the component (eager tells whether it does), and at the next
\* render otherwise.
handleGuess(w, c, letter, eager) ==
    IF includes(c.gameState.guessedLetters, letter)
    THEN w
    ELSE LET prev == w.gs
             isCorrect == includes(prev.word, letter)
             points == GuessPoints * occurrences(prev.word, letter) * c.currentLevel
             inCall == eager /\ ~w.dirty
         IN [w EXCEPT
               !.gs = [prev EXCEPT
                         !.guessedLetters = Append(@, letter),
                         !.remainingAttempts = IF isCorrect THEN @ ELSE @ - 1],
               !.prog = IF isCorrect /\ inCall
                        THEN updateScore(@, wordguess, points) ELSE @,
               !.scores = IF isCorrect /\ ~inCall THEN Append(@, points) ELSE @,
               !.dirty = TRUE]

\* handleSolve, created by the render whose snapshot is c.
handleSolve(w, c, attempt) ==
    IF toUpperCase(attempt) = c.gameState.word
    THEN [w EXCEPT
            !.gs = [w.gs EXCEPT !.guessedLetters = distinctLetters(w.gs.word)],
            !.prog = incrementLevel(
                         updateScore(w.prog, wordguess, SolvePoints * c.currentLevel),
                         wordguess),
            !.pend = Append(w.pend, c.currentLevel),
            !.dirty = TRUE]
    ELSE [w EXCEPT !.gs.remainingAttempts = @ - 1, !.dirty = TRUE]

\* Whether pat occurs in the lower-cased text at position i.
matchesAt(text, pat, i) ==
    /\ i + Len(pat) - 1 <= Len(text)
    /\ \A k \in 1..Len(pat) : toLowerChar(text[i + k - 1]) = pat[k]

\* The leftmost position where the keyword, a space and a \w character match.
keywordMatch(text, keyword) ==
    LET hits == {i \in 1..Len(text) :
                    /\ matchesAt(text, keyword \o <<" ">>, i)
                    /\ i + Len(keyword) + 1 <= Len(text)
                    /\ IsWordChar(text[i + Len(keyword) + 1])}
    IN IF hits = {} THEN 0 ELSE CHOOSE i \in hits : \A j \in hits : i <= j

\* command.match(/guess (\w)/i): the captured character, or <<>>.
matchGuess(command) ==
    LET at == keywordMatch(command, <<"g","u","e","s","s">>)
    IN IF at = 0 THEN <<>> ELSE <<command[at + 6]>>

\* command.match(/solve (\w+)/i): the captured run of \w characters, or <<>>.
matchSolve(command) ==
    LET at == keywordMatch(command, <<"s","o","l","v","e">>)
        first == at + 6
        last == CHOOSE j \in first..Len(command) :
                    /\ \A k \in first..j : IsWordChar(command[k])
                    /\ (j = Len(command) \/ ~IsWordChar(command[j + 1]))
    IN IF at = 0 THEN <<>> ELSE SubSeq(command, first, last)

\* The texts the voice recognition delivers.
Commands ==
    { <<"g","u","e","s","s"," ","a">>,
      <<"G","u","e","s","s"," ","B">>,
      <<"s","o","l","v","e"," ","a","a">>,
      <<"S","o","l","v","e"," ","A","b">>,
      <<"n","e","w"," ","g","a","m","e">>,
      <<"h","e","l","l","o">> }

\* Recognized texts, some of which hold more than one command.
textGuessA == <<"g","u","e","s","s"," ","a">>

textSolveAA == <<"s","o","l","v","e"," ","a","a">>

textNewGame == <<"N","e","w"," ","G","a","m","e">>

textHello == <<"h","e","l","l","o">>

textGuess == <<"g","u","e","s","s">>

textGuessASolveAA ==
    <<"g","u","e","s","s"," ","a"," ","s","o","l","v","e"," ","a","a">>

textNewGameGuessB ==
    <<"n","e","w"," ","g","a","m","e"," ","G","u","e","s","s"," ","B">>

textSolveABNewGame ==
    <<"s","o","l","v","e"," ","a","b"," ","n","e","w"," ","g","a","m","e">>

CommandTexts ==
    {textGuessA, textSolveAA, textNewGame, textHello, textGuess,
     textGuessASolveAA, textNewGameGuessB, textSolveABNewGame}

\* What the two patterns and the test for "new game" give for each text
\* that is heard, matched once.
matched ==
    [command \in Commands \cup CommandTexts |->
        [guessMatch |-> matchGuess(command),
         solveMatch |-> matchSolve(command),
         newGame |-> includesStr(toLowerCase(command),
                                 <<"n","e","w"," ","g","a","m","e">>)]]

\* const guessMatch = command.match(/guess (\w)/i).
guessMatch(command) ==
    IF command \in DOMAIN matched THEN matched[command].guessMatch
    ELSE matchGuess(command)

\* const solveMatch = command.match(/solve (\w+)/i).
solveMatch(command) ==
    IF command \in DOMAIN matched THEN matched[command].solveMatch
    ELSE matchSolve(command)

\* command.toLowerCase().includes('new game').
includesNewGame(command) ==
    IF command \in DOMAIN matched THEN matched[command].newGame
    ELSE includesStr(toLowerCase(command), <<"n","e","w"," ","g","a","m","e">>)

\* The branch handleCommand takes.
interpret(command) ==
    IF guessMatch(command) # <<>> THEN "guess"
    ELSE IF solveMatch(command) # <<>> THEN "solve"
    ELSE IF includesNewGame(command) THEN "newgame"
    ELSE "nomatch"

\* A handleCommand that looks for "new game" before the two patterns.
handleCommand_NewGameFirst(w, c, command, eager) ==
    IF includesNewGame(command)
    THEN initGame(w, c.currentLevel)
    ELSE IF guessMatch(command) # <<>>
    THEN handleGuess(w, c, toUpperCase(guessMatch(command))[1], eager)
    ELSE IF solveMatch(command) # <<>>
    THEN handleSolve(w, c, toUpperCase(solveMatch(command)))
    ELSE w

\* handleCommand, created by the render whose snapshot is c.
handleCommand(w, c, command, eager) ==
    IF guessMatch(command) # <<>>
    THEN handleGuess(w, c, toUpperCase(guessMatch(command))[1], eager)
    ELSE IF solveMatch(command) # <<>>
    THEN handleSolve(w, c, toUpperCase(solveMatch(command)))
    ELSE IF includesNewGame(command)
    THEN initGame(w, c.currentLevel)
    ELSE w

\* The updater of the countdown interval.
tick(w) == [w EXCEPT !.gs.timeLeft = @ - 1, !.dirty = TRUE]

isGameOver(gs) == gs.remainingAttempts = 0

isWon(gs) == \A i \in 1..Len(gs.word) : includes(gs.guessedLetters, gs.word[i])

\* The phase the component shows for a state: the memorize screen while
\* timeLeft > 0, then the end banner ("Congratulations!" when isWon, else
\* "Game Over!") when isGameOver or isWon, else the playing board.
Phase(gs) ==
    IF gs.timeLeft > 0 THEN "Memorize"
    ELSE IF isWon(gs) THEN "Won"
    ELSE IF isGameOver(gs) THEN "Lost"
    ELSE "Playing"

\* The letter button is shown and enabled in the rendered state.
buttonEnabled(c, letter) ==
    /\ ~(c.gameState.timeLeft > 0)
    /\ ~(includes(c.gameState.guessedLetters, letter)
         \/ isGameOver(c.gameState) \/ isWon(c.gameState))

\* The "New Game" button is shown in the rendered state.
newGameShown(c) ==
    /\ ~(c.gameState.timeLeft > 0)
    /\ (isGameOver(c.gameState) \/ isWon(c.gameState))

\* The countdown effect arms an interval for a render that saw gs.
timerArmed(gs) == gs.timeLeft > 0

\* React runs the queued updaters in the order they were queued; those of
\* handleGuess call updateScore with the points they computed.
RECURSIVE runUpdaters(_, _)
runUpdaters(p, scores) ==
    IF scores = <<>> THEN p
    ELSE runUpdaters(updateScore(p, wordguess, Head(scores)), Tail(scores))

\* The passive effects a render leaves to run: the effect on [initGame] when
\* currentLevel is not the one the previous render saw (initGame is
\* memoized on [currentLevel, words]), the countdown effect when
\* gameState.timeLeft is not.
effectsOf(before, after) ==
    (IF after.currentLevel # before.currentLevel THEN {"initGame"} ELSE {})
    \cup (IF after.gameState.timeLeft # before.gameState.timeLeft
          THEN {"countdown"} ELSE {})

\* A render: the queued updaters run, and the handlers are created anew
\* over the state and the level the render sees.
render(w) ==
    LET done == [w EXCEPT !.prog = runUpdaters(@, w.scores),
                          !.scores = <<>>, !.dirty = FALSE]
    IN [done EXCEPT !.shown = Snapshot(done),
                    !.due = effectsOf(w.shown, Snapshot(done))]

\* The passive effects of the last render, in the order of their hooks.  The
\* effect on [initGame] calls the initGame of that render; an initGame that
\* throws in the effect makes React unmount the component, and the unmount
\* clears the interval.  The countdown effect's cleanup clears the interval
\* and the effect arms a new one when the rendered timeLeft is above 0.
runEffects(w) ==
    LET c == w.shown
        started == IF "initGame" \in w.due THEN initGame(w, c.currentLevel) ELSE w
        counted == IF "countdown" \in w.due
                   THEN [started EXCEPT
                           !.timer = IF timerArmed(c.gameState) THEN "own" ELSE "none"]
                   ELSE started
    IN IF "initGame" \in w.due /\ ~drawable(c.currentLevel)
       THEN [w EXCEPT !.up = FALSE, !.timer = "none", !.due = {}]
       ELSE [counted EXCEPT !.due = {}]

(* ------------------------------- inputs ------------------------------- *)

\* The letter buttons that are clicked (the board has one per letter A..Z).
ClickLetters == {"A", "B"}

\* The argument handleCommand hands to the handler it calls.
commandArg(command) ==
    IF guessMatch(command) # <<>> THEN toUpperCase(guessMatch(command))
    ELSE IF solveMatch(command) # <<>> THEN toUpperCase(solveMatch(command))
    ELSE <<>>

(* ------------------------------- actions ------------------------------ *)

\* The points the queued updaters hold.
RECURSIVE sum(_)
sum(scores) == IF scores = <<>> THEN 0 ELSE Head(scores) + sum(Tail(scores))

\* The part of the state space that is followed.
WithinBounds(w) ==
    /\ Len(w.gs.guessedLetters) <= MaxGuessed
    /\ w.gs.remainingAttempts >= 0 - MaxOverdraw
    /\ w.gs.timeLeft >= 0 - MaxOverrun
    /\ Len(w.pend) <= MaxPending
    /\ drawable(w.prog[wordguess].currentLevel)
           => w.prog[wordguess].totalScore + sum(w.scores) <= MaxScore

\* No update is waiting for a render and no effect is left to run.
Committed ==
    /\ mounted
    /\ ~updatePending
    /\ effectsDue = {}
    /\ rendered = Snapshot(World)

\* The record of the last event: the handler that ran (op), its argument, and
\* whether the last step was the handler, a render that followed it or the
\* effects of that render (by).
Event(op, arg) == [op |-> op, arg |-> arg, by |-> "handler"]

\* The result w of a step becomes the state.
Become(w) ==
    /\ mounted
    /\ WithinBounds(w)
    /\ gameState' = w.gs
    /\ progress' = w.prog
    /\ pendingInit' = w.pend
    /\ timer' = w.timer
    /\ mounted' = w.up
    /\ updaterScores' = w.scores
    /\ updatePending' = w.dirty
    /\ rendered' = w.shown
    /\ effectsDue' = w.due
    /\ UNCHANGED tables

\* The result w of a voice command becomes the state.  A command that
\* changes nothing is always taken; of those that change the state, MaxBatch
\* are followed between two renders.
Heard(w) ==
    /\ w = World \/ queued < MaxBatch
    /\ Become(w)
    /\ queued' = IF w = World THEN queued ELSE queued + 1

\* A render handles every update queued before it.
Rendered == queued' = 0

Init ==
    /\ progress = initialStore
    /\ tables = contentTables
    /\ gameState = freshState(initialProgress.currentLevel)
    /\ rendered = [gameState |-> gameState,
                   currentLevel |-> initialProgress.currentLevel]
    /\ pendingInit = <<>>
    /\ mounted = TRUE
    /\ timer = "own"
    /\ updaterScores = <<>>
    /\ updatePending = FALSE
    /\ effectsDue = {}
    /\ queued = 0
    /\ ev = [op |-> "mount", arg |-> <<>>, by |-> "render"]

\* onClick={() => handleGuess(letter)} of an enabled letter button.  A click
\* is a discrete event: React renders its updates before it returns to the
\* event loop, so the updater runs within the step either way.
ClickGuess ==
    \E letter \in ClickLetters :
        /\ effectsDue = {}
        /\ buttonEnabled(rendered, letter)
        /\ Become(render(handleGuess(World, rendered, letter, FALSE)))
        /\ Rendered
        /\ ev' = Event("guess", <<letter>>)

\* onClick={initGame} of the "New Game" button.
ClickNewGame ==
    /\ effectsDue = {}
    /\ newGameShown(rendered)
    /\ Become(render(initGame(World, rendered.currentLevel)))
    /\ Rendered
    /\ ev' = Event("newgame", <<>>)

\* Whether React runs the updater of a guess in the call: it may when no
\* update is queued on the component, and the other handlers pass no
\* updater that calls the store.
EagerChoices(command) ==
    IF updatePending \/ guessMatch(command) = <<>> THEN {FALSE} ELSE BOOLEAN

\* onCommand: handleCommand with a recognized text, called from the speech
\* recognition's callback; the render comes later.
VoiceCommand ==
    \E command \in Commands, eager \in BOOLEAN :
        /\ eager \in EagerChoices(command)
        /\ Heard(handleCommand(World, rendered, command, eager))
        /\ ev' = Event(interpret(command), commandArg(command))

\* The countdown interval fires.  Nothing but the clearInterval of the
\* effect's cleanup stops it, so it fires again when the render or the
\* effects of the firing before are held up.
Tick ==
    /\ timer # "none"
    /\ Become(tick(World))
    /\ UNCHANGED queued
    /\ ev' = Event("tick", <<>>)

\* setTimeout(initGame, 1500) fires, with the initGame of the render that
\* created the handleSolve that scheduled it, whatever is queued by then.
\* After the unmount the callback still runs, and React ignores the state
\* it sets.
DelayedInit ==
    /\ pendingInit # <<>>
    /\ IF mounted
       THEN /\ Become([initGame(World, Head(pendingInit)) EXCEPT !.pend = Tail(@)])
            /\ UNCHANGED queued
       ELSE /\ pendingInit' = Tail(pendingInit)
            /\ UNCHANGED <<progress, tables, gameState, rendered, mounted,
                           timer, updaterScores, updatePending, effectsDue,
                           queued>>
    /\ ev' = Event("start", <<>>)

\* React renders the queued updates and the store's changes.
Render ==
    /\ effectsDue = {}
    /\ updatePending \/ rendered # Snapshot(World)
    /\ Become(render(World))
    /\ Rendered
    /\ ev' = [ev EXCEPT !.by = "render"]

\* React runs the passive effects of the last render.
RunEffects ==
    /\ effectsDue # {}
    /\ Become(runEffects(World))
    /\ UNCHANGED queued
    /\ ev' = [ev EXCEPT !.by = "effects"]

\* onBack: the screen is left and the component unmounted, whatever is
\* queued: the queued updaters never run, the effects that were due are
\* dropped, and the cleanup of the countdown effect clears the interval.
ExitScreen ==
    /\ mounted
    /\ mounted' = FALSE
    /\ timer' = "none"
    /\ effectsDue' = {}
    /\ ev' = Event("exit", <<>>)
    /\ UNCHANGED <<progress, tables, gameState, rendered, pendingInit,
                   updaterScores, updatePending, queued>>

\* The screen is entered again: a new WordGuessGame is mounted over the
\* store as it is (after a reload, as persist has restored it).  Its first
\* render sees the initial value of useState and the store's currentLevel,
\* and leaves both effects to run.  What the instance before had queued is
\* gone with it; the timeouts it left set the state of that instance only,
\* so they are dropped here.
EnterScreen ==
    /\ ~mounted
    /\ mounted' = TRUE
    /\ gameState' = blankState
    /\ rendered' = [gameState |-> blankState,
                    currentLevel |-> progress[wordguess].currentLevel]
    /\ effectsDue' = {"initGame", "countdown"}
    /\ pendingInit' = <<>>
    /\ updaterScores' = <<>>
    /\ updatePending' = FALSE
    /\ queued' = 0
    /\ ev' = Event("mount", <<>>)
    /\ UNCHANGED <<progress, tables, timer>>

Next ==
    \/ ClickGuess
    \/ ClickNewGame
    \/ VoiceCommand
    \/ Tick
    \/ DelayedInit
    \/ Render
    \/ RunEffects
    \/ ExitScreen
    \/ EnterScreen

Spec == Init /\ [][Next]_vars

(* ------------------------ the progress store alone --------------------- *)

\* The game types the store's operations are called for.
StoreGames == {"wordguess", "quiz"}

\* The records updateProgress is called with.
StoreRecords ==
    [currentLevel : 1..StoreMaxLevel, highestLevel : 1..StoreMaxLevel,
     totalScore : {n \in 0..StoreMaxScore : n % GuessPoints = 0}]

StoreEvent(op, g, record) == [op |-> op, g |-> g, record |-> record]

\* The store's state: the progress map and the content tables.
Store == [progress |-> progress, tables |-> tables]

\* A set that replaces the store's state by the progress map alone, which
\* leaves every content table without its entries.
produce_Replace(state, q) ==
    [progress |-> q, tables |-> [t \in DOMAIN state.tables |-> <<>>]]

\* set(produce(recipe)) of the store, the recipe changing the progress map
\* from p to q: immer hands on every part of the state the recipe did not
\* assign.
produce(state, q) == [state EXCEPT !.progress = q]

\* The store's state becomes s; the component is not touched.
StoreBecomes(s) ==
    /\ progress' = s.progress
    /\ tables' = s.tables
    /\ UNCHANGED <<gameState, rendered, pendingInit, mounted, timer,
                   updaterScores, updatePending, effectsDue, queued>>

StoreInit ==
    /\ progress = initialStore
    /\ tables = contentTables
    /\ gameState = freshState(initialProgress.currentLevel)
    /\ rendered = [gameState |-> gameState,
                   currentLevel |-> initialProgress.currentLevel]
    /\ pendingInit = <<>>
    /\ mounted = TRUE
    /\ timer = "own"
    /\ updaterScores = <<>>
    /\ updatePending = FALSE
    /\ effectsDue = {}
    /\ queued = 0
    /\ ev = StoreEvent("create", wordguess, initialProgress)

StoreUpdate ==
    \E g \in StoreGames, record \in StoreRecords :
        /\ StoreBecomes(produce(Store, updateProgress(progress, g, record)))
        /\ ev' = StoreEvent("update", g, record)

StoreReset ==
    \E g \in StoreGames :
        /\ StoreBecomes(produce(Store, resetProgress(progress, g)))
        /\ ev' = StoreEvent("reset", g, initialProgress)

StoreIncrementLevel ==
    \E g \in StoreGames :
        /\ progress[g].currentLevel < StoreMaxLevel
        /\ StoreBecomes(produce(Store, incrementLevel(progress, g)))
        /\ ev' = StoreEvent("incrementLevel", g, progress'[g])

StoreAddScore ==
    \E g \in StoreGames, delta \in {GuessPoints, 2 * GuessPoints} :
        /\ progress[g].totalScore + delta <= StoreMaxScore
        /\ StoreBecomes(produce(Store, updateScore(progress, g, delta)))
        /\ ev' = StoreEvent("addScore", g, progress'[g])

StoreNext ==
    \/ StoreUpdate
    \/ StoreReset
    \/ StoreIncrementLevel
    \/ StoreAddScore

StoreSpec == StoreInit /\ [][StoreNext]_vars

(* ------------------------ the command interpreter --------------------- *)

\* onCommand: handleCommand with a recognized text, which is kept.
CommandHeard ==
    \E command \in CommandTexts, eager \in BOOLEAN :
        /\ eager \in EagerChoices(command)
        /\ Heard(handleCommand(World, rendered, command, eager))
        /\ ev' = [op |-> "command", text |-> command, by |-> "handler"]

CommandNext ==
    \/ CommandHeard
    \/ Tick
    \/ DelayedInit
    \/ Render
    \/ RunEffects

\* The component driven by voice alone.
CommandSpec == Init /\ [][CommandNext]_vars

(* -------------------------- the difficulty bands ---------------------- *)

\* getDifficultyLabel
getDifficultyLabel(level) ==
    IF level <= 5000 THEN "Easy"
    ELSE IF level <= 10000 THEN "Medium"
    ELSE IF level <= 15000 THEN "Hard"
    ELSE "Extreme"

\* A colour whose bands end one level early.
getDifficultyColor_Exclusive(level) ==
    IF level < 5000 THEN "text-green-400"
    ELSE IF level < 10000 THEN "text-yellow-400"
    ELSE IF level < 15000 THEN "text-orange-400"
    ELSE "text-red-400"

\* getDifficultyColor
getDifficultyColor(level) ==
    IF level <= 5000 THEN "text-green-400"
    ELSE IF level <= 10000 THEN "text-yellow-400"
    ELSE IF level <= 15000 THEN "text-orange-400"
    ELSE "text-red-400"

\* The label and the colour shown for a level.
Classified(level) ==
    [op |-> "classified", level |-> level,
     label |-> getDifficultyLabel(level), color |-> getDifficultyColor(level)]

\* A level is chosen; nothing is computed for it yet.
BandInit ==
    /\ progress = initialStore
    /\ tables = contentTables
    /\ gameState = freshState(initialProgress.currentLevel)
    /\ rendered = [gameState |-> gameState,
                   currentLevel |-> initialProgress.currentLevel]
    /\ pendingInit = <<>>
    /\ mounted = TRUE
    /\ timer = "own"
    /\ updaterScores = <<>>
    /\ updatePending = FALSE
    /\ effectsDue = {}
    /\ queued = 0
    /\ \E level \in 1..MaxBandLevel :
           ev = [op |-> "level", level |-> level, label |-> "", color |-> ""]

\* The two functions are applied to the level.
BandClassify ==
    /\ ev.op = "level"
    /\ ev' = Classified(ev.level)
    /\ UNCHANGED <<progress, tables, gameState, rendered, pendingInit, mounted,
                   timer, updaterScores, updatePending, effectsDue,
                   queued>>

\* The level goes up by one and the two functions are applied to it.
BandLevelUp ==
    /\ ev.op = "classified"
    /\ ev.level < MaxBandLevel
    /\ ev' = Classified(ev.level + 1)
    /\ UNCHANGED <<progress, tables, gameState, rendered, pendingInit, mounted,
                   timer, updaterScores, updatePending, effectsDue,
                   queued>>

BandNext ==
    \/ BandClassify
    \/ BandLevelUp

BandSpec == BandInit /\ [][BandNext]_vars

(* ------------------------------- claims ------------------------------- *)

\* The progress record of the word-guess game.
prog == progress[wordguess]

\* The score of the record once React has run the updaters that are queued.
scoreDue == prog.totalScore + sum(updaterScores)

\* The progress map once React has run the updaters that are queued.
progressDue == [progress EXCEPT ![wordguess].totalScore = scoreDue]

\* The step is the run of the handler ev' names (not a render or the
\* effects after it); the step of a click holds the render of the click.
HandlerStep(op) == ev'.by = "handler" /\ ev'.op = op

\* C1, as stated: for every game type, highestLevel and totalScore never
\* decrease from one state to the next, whatever the operation.
C1_NeverDecrease ==
    [][\A g \in GameTypes :
          /\ progress'[g].highestLevel >= progress[g].highestLevel
          /\ progress'[g].totalScore >= progress[g].totalScore]_vars

\* C1, amended: for every game type, highestLevel and totalScore never
\* decrease from one state to the next, except that reset(g) sets g's record
\* to {1, 1, 0} and update(g, record) sets it to the record it is given.
C1_NeverDecreaseButResetUpdate ==
    [][\A g \in GameTypes :
          \/ /\ progress'[g].highestLevel >= progress[g].highestLevel
             /\ progress'[g].totalScore >= progress[g].totalScore
          \/ /\ ev'.op = "reset" /\ ev'.g = g
             /\ progress'[g] = initialProgress
          \/ /\ ev'.op = "update" /\ ev'.g = g
             /\ progress'[g] = ev'.record]_vars

\* C1: an incrementLevel has raised highestLevel of a record that holds a
\* score, while the other game's record holds progress a reset could lose.
C1_Witness ==
    /\ ev.op = "incrementLevel"
    /\ progress[ev.g].highestLevel = 2
    /\ progress[ev.g].totalScore > 0
    /\ \E g \in StoreGames \ {ev.g} : progress[g].totalScore > 0

\* C2: a guess of a symbol that is already in revealed changes none of
\* attemptsRemaining, revealed and phase and scores nothing, also when two
\* guesses of the same symbol arrive back-to-back.
C2_DuplicateGuessNoOp ==
    [][(/\ HandlerStep("guess")
        /\ includes(gameState.guessedLetters, ev'.arg[1]))
       => /\ gameState'.remainingAttempts = gameState.remainingAttempts
          /\ gameState'.guessedLetters = gameState.guessedLetters
          /\ Phase(gameState') = Phase(gameState)
          /\ scoreDue' = scoreDue]_vars

C5_DelayedStartDrawsNextLevel ==
    (ev.op = "start" /\ mounted) => gameState.word = words(prog.currentLevel)

\* C6: once a session has its target, the phase is Won iff every distinct
\* symbol of target is in revealed, and Lost iff attemptsRemaining has
\* reached 0 and the session is not Won.
C6_WonLostIff ==
    gameState.word # <<>>
    => /\ Phase(gameState) = "Won" <=> isWon(gameState)
       /\ Phase(gameState) = "Lost"
            <=> (gameState.remainingAttempts <= 0 /\ ~isWon(gameState))

\* C7: NewGame, in any phase, leaves the progress record unchanged (it
\* scores nothing and changes no level) and sets revealed = {},
\* attemptsRemaining = 6, memorizeCountdown = 3, phase = Memorize; once
\* rendered, the session is the fresh one of the Content Source entry at
\* index currentLevel - 1.
C7_NewGameResets ==
    /\ [][HandlerStep("newgame")
          => /\ progressDue' = progressDue
             /\ gameState'.guessedLetters = <<>>
             /\ gameState'.remainingAttempts = 6
             /\ gameState'.timeLeft = 3
             /\ Phase(gameState') = "Memorize"]_vars
    /\ []((ev.op = "newgame" /\ Committed)
          => /\ gameState.word = words(prog.currentLevel)
             /\ gameState.guessedLetters = <<>>
             /\ gameState.remainingAttempts = 6
             /\ gameState.timeLeft = 3)

\* C8: a guess or a solve that arrives while the phase is not Playing changes
\* none of revealed, attemptsRemaining, phase and currentLevel, and scores
\* nothing.
C8_OnlyWhilePlaying ==
    [][(/\ HandlerStep("guess") \/ HandlerStep("solve")
        /\ Phase(gameState) # "Playing")
       => /\ gameState'.guessedLetters = gameState.guessedLetters
          /\ gameState'.remainingAttempts = gameState.remainingAttempts
          /\ Phase(gameState') = Phase(gameState)
          /\ scoreDue' = scoreDue
          /\ prog'.currentLevel = prog.currentLevel]_vars

\* C9: in every reachable state 0 <= attemptsRemaining <= 6.
C9_AttemptsInRange ==
    /\ 0 <= gameState.remainingAttempts
    /\ gameState.remainingAttempts <= 6

\* C10: once the phase is Won or Lost, the only phase it changes to is
\* Memorize (by NewGame or the automatic Start).
C10_EndPhasesAreTerminal ==
    [][(Phase(gameState) \in {"Won", "Lost"} /\ Phase(gameState') # Phase(gameState))
       => Phase(gameState') = "Memorize"]_vars

wellFormed(record) ==
    /\ record.currentLevel >= 1
    /\ record.highestLevel >= record.currentLevel
    /\ record.totalScore >= 0

\* C12, as stated: in every reachable state of the store, for every game
\* type, currentLevel >= 1, highestLevel >= currentLevel and totalScore >= 0.
C12_RecordsWellFormed == \A g \in GameTypes : wellFormed(progress[g])

\* C12, amended: the records of the store as created are well formed, and
\* reset, incrementLevel, addScore, and update with a well-formed record,
\* keep every record well formed.
C12_WellFormedKept ==
    /\ \A g \in GameTypes : wellFormed(progress[g])
    /\ [][((\A g \in GameTypes : wellFormed(progress[g]))
            /\ (ev'.op = "update" => wellFormed(ev'.record)))
           => \A g \in GameTypes : wellFormed(progress'[g])]_vars

\* C12: update has stored a well-formed record that is not the default one,
\* next to a record that addScore and incrementLevel have built.
C12_Witness ==
    /\ ev = StoreEvent("update", "quiz",
                       [currentLevel |-> 1, highestLevel |-> 2, totalScore |-> 20])
    /\ progress["quiz"] = ev.record
    /\ progress[wordguess] =
           [currentLevel |-> 2, highestLevel |-> 2, totalScore |-> 10]

\* C13: after update(g, record) the record read for g is exactly record;
\* after reset(g) it is {1, 1, 0}; the record read for a game type that was
\* never updated is the default {1, 1, 0}.
C13_GetReturnsStored ==
    /\ ev.op = "update" => progress[ev.g] = ev.record
    /\ ev.op = "reset" =>
           progress[ev.g] = [currentLevel |-> 1, highestLevel |-> 1, totalScore |-> 0]
    /\ \A g \in GameTypes \ StoreGames :
           progress[g] = [currentLevel |-> 1, highestLevel |-> 1, totalScore |-> 0]
    /\ ev.op = "create" =>
           \A g \in GameTypes :
               progress[g] = [currentLevel |-> 1, highestLevel |-> 1, totalScore |-> 0]

\* C13: update has replaced a record of highestLevel 2 by one of
\* highestLevel 1 and a lower score, and that is the record read.
C13_Witness ==
    /\ ev = StoreEvent("update", wordguess,
                       [currentLevel |-> 2, highestLevel |-> 1, totalScore |-> 0])
    /\ progress[wordguess] = ev.record
    /\ progress["quiz"] =
           [currentLevel |-> 2, highestLevel |-> 2, totalScore |-> 20]

\* C18: updateProgress(g, record) and resetProgress(g) change the record of
\* g only: the records of the other five game types and the six content
\* tables are after the call what they were before it.
C18_OnlyOwnRecord ==
    [][ev'.op \in {"update", "reset"}
       => /\ \A g \in GameTypes \ {ev'.g} : progress'[g] = progress[g]
          /\ \A t \in {"words", "quizQuestions", "numberStages",
                        "memoryStages", "simonStages", "adventureStages"} :
                 tables'[t] = tables[t]]_vars

\* C18: the record of quiz has been reset while wordguess held a record that
\* is not the default one, which is still there, as are the words.
C18_Witness ==
    /\ ev = StoreEvent("reset", "quiz", initialProgress)
    /\ progress["quiz"] = initialProgress
    /\ progress[wordguess] =
           [currentLevel |-> 2, highestLevel |-> 1, totalScore |-> 20]
    /\ tables = contentTables

\* The place of a label, and of a colour, in the order of the bands.
bandOfLabel(label) ==
    CASE label = "Easy" -> 1 [] label = "Medium" -> 2
      [] label = "Hard" -> 3 [] label = "Extreme" -> 4

bandOfColor(color) ==
    CASE color = "text-green-400" -> 1 [] color = "text-yellow-400" -> 2
      [] color = "text-orange-400" -> 3 [] color = "text-red-400" -> 4

\* C20: getDifficultyLabel and getDifficultyColor cut the levels into the
\* same four bands, which end at 5000, 10000 and 15000 inclusive: the label is
\* Easy, Medium, Hard, Extreme exactly when the colour is green, yellow,
\* orange, red, and the band never goes down when the level goes up.
C20_SameBands ==
    /\ [](ev.op = "classified" =>
            /\ bandOfLabel(ev.label) =
                   (IF ev.level <= 5000 THEN 1
                    ELSE IF ev.level <= 10000 THEN 2
                    ELSE IF ev.level <= 15000 THEN 3 ELSE 4)
            /\ bandOfColor(ev.color) = bandOfLabel(ev.label))
    /\ [][(ev.op = "classified" /\ ev'.op = "classified" /\ ev'.level >= ev.level)
           => bandOfLabel(ev'.label) >= bandOfLabel(ev.label)]_vars

\* C20: level 15000, the last of its band, has been reached from the level
\* below and is shown as Hard, in orange.
C20_Witness ==
    /\ ev.op = "classified"
    /\ ev.level = 15000
    /\ ev.label = "Hard"
    /\ ev.color = "text-orange-400"

\* C19: in every reachable state 0 <= memorizeCountdown <= 3; the countdown
\* timer is armed only while the memorizeCountdown React has rendered is above
\* 0; and a memorizeCountdown of 0 stays 0 until a Start or NewGame (or the
\* mount of the screen) sets the state of a new session.
C19_CountdownInRange ==
    /\ [](gameState.timeLeft >= 0 /\ gameState.timeLeft <= 3)
    /\ []((timer # "none" /\ "countdown" \notin effectsDue)
          => rendered.gameState.timeLeft > 0)
    /\ [][(gameState.timeLeft = 0 /\ gameState'.timeLeft # 0)
           => /\ gameState'.timeLeft = 3
              /\ gameState'.guessedLetters = <<>>
              /\ gameState'.remainingAttempts = 6
              /\ \/ HandlerStep("newgame")
                 \/ HandlerStep("start")
                 \/ HandlerStep("mount")
                 \/ (ev'.by = "effects" /\ "initGame" \in effectsDue)]_vars

\* The step leaves the component, the store's progress, the scheduled Starts
\* and the interval as w has them.
Yields(w) ==
    /\ gameState' = w.gs
    /\ progress' = w.prog
    /\ pendingInit' = w.pend
    /\ updaterScores' = w.scores
    /\ timer' = w.timer
    /\ mounted' = w.up
    /\ updatePending' = w.dirty
    /\ rendered' = w.shown
    /\ effectsDue' = w.due
    /\ tables' = tables

\* C16: the first pattern that matches wins, in the order guess, solve,
\* new game: a text that matches the guess pattern yields GuessLetter even if
\* it matches the solve pattern or holds "new game" as well; a text that
\* matches the solve pattern and not the guess pattern yields SolveAttempt
\* even if it holds "new game"; a text that matches nothing changes neither
\* the session nor the progress, nor anything else of the component and the
\* store.
C16_FirstMatchWins ==
    [][(ev'.by = "handler" /\ ev'.op = "command")
       => LET text == ev'.text
          IN /\ text \in {textGuessA, textGuessASolveAA}
                    => \E eager \in BOOLEAN :
                           Yields(handleGuess(World, rendered, "A", eager))
             /\ text = textNewGameGuessB
                    => \E eager \in BOOLEAN :
                           Yields(handleGuess(World, rendered, "B", eager))
             /\ text = textSolveAA
                    => Yields(handleSolve(World, rendered, <<"A","A">>))
             /\ text = textSolveABNewGame
                    => Yields(handleSolve(World, rendered, <<"A","B">>))
             /\ text = textNewGame
                    => Yields(initGame(World, rendered.currentLevel))
             /\ text \in {textHello, textGuess}
                    => Yields(World)]_vars

\* C16: "new game Guess B" has been heard in a session on "AA" in which "A"
\* was revealed: it was taken as a guess of "B", which cost an attempt, and
\* the session was not restarted.
C16_Witness ==
    /\ ev = [op |-> "command", text |-> textNewGameGuessB, by |-> "handler"]
    /\ gameState.word = <<"A","A">>
    /\ gameState.guessedLetters = <<"A","B">>
    /\ gameState.remainingAttempts = 5
    /\ prog.totalScore = 20

\* C14: the countdown timer is scoped to its session: once React has
\* rendered the start of a new session, no tick comes from an interval that
\* was created for a session replaced since, and no interval is left after
\* the screen was exited.
C14_TimerScopedToSession ==
    /\ [][(HandlerStep("tick") /\ Committed) => timer # "orphan"]_vars
    /\ [](~mounted => timer = "none")

\* C15: a countdown tick while the phase is Memorize takes exactly 1 from
\* memorizeCountdown and changes neither target nor revealed nor
\* attemptsRemaining, and the phase is Playing after it iff memorizeCountdown
\* is 0 after it.
C15_TickEffect ==
    [][(HandlerStep("tick") /\ Phase(gameState) = "Memorize")
       => /\ gameState'.timeLeft = gameState.timeLeft - 1
          /\ gameState'.word = gameState.word
          /\ gameState'.guessedLetters = gameState.guessedLetters
          /\ gameState'.remainingAttempts = gameState.remainingAttempts
          /\ (Phase(gameState') = "Playing" <=> gameState'.timeLeft = 0)]_vars

\* C17: no event aborts the session: nothing but the exit of the screen
\* unmounts the component, and every currentLevel the solves lead to has a
\* word to start a session with.
C17_SessionNeverAborted ==
    /\ [][(mounted /\ ~mounted') => HandlerStep("exit")]_vars
    /\ [](drawable(prog.currentLevel))

====
